---- MODULE Spec2Model ----
(***************************************************************************)
(* Model of the resource tools of rancher-ai-mcp (internal/tools):          *)
(* getCAPIMachineResources, InspectPod, GetNodes, getClusterType,           *)
(* InspectCluster and the Resource Gateway (getResource / getResources),    *)
(* whose answers are the only source of nondeterminism.  Every Gateway call *)
(* is appended to the log `calls`.                                          *)
(***************************************************************************)
EXTENDS Naturals, Sequences, FiniteSets, TLC

----------------------------------------------------------------------------
(* Bounds of the model *)

MaxMachines == 2
MaxOwners == 2
MaxPoolSize == 2
MaxNodes == 2
MaxRequests == 2
MaxItems == 2
MaxClusterMachines == 1
MaxSharedMachines == 2

----------------------------------------------------------------------------
(* Names and kinds *)

CAPIMachineDeploymentKind == "MachineDeployment"
CAPIMachineSetKind == "MachineSet"
OtherOwnerKind == "Cluster"

CAPIMachineResourceKind == "machine"
CAPIMachineSetResourceKind == "machineset"
CAPIMachineDeploymentResourceKind == "machinedeployment"

MachineNames == <<"m1", "m2", "m3", "m4">>
SetNames == {"s1", "s2"}
DeploymentNames == {"d1", "d2"}

\* the errors a Gateway call can return (apierrors reasons and transport failure)
ErrKinds == {"NotFound", "Unavailable", "Forbidden"}
NoError == ""

IsNotFound(e) == e = "NotFound"

\* a nil *unstructured.Unstructured
Nil == [kind |-> "nil", name |-> "", owners |-> <<>>]

Obj(k, n, o) == [kind |-> k, name |-> n, owners |-> o]

OwnerRef(k, n) == [kind |-> k, name |-> n]

\* all sequences over S of length at most n
RECURSIVE SeqsUpTo(_, _)
SeqsUpTo(S, n) ==
    IF n = 0 THEN {<<>>}
    ELSE LET shorter == SeqsUpTo(S, n - 1)
         IN shorter \cup {Append(s, x) : s \in shorter, x \in S}

\* lists of distinct owner references over S, of length at most n
DistinctOwnerLists(S, n) ==
    {s \in SeqsUpTo(S, n) : \A p, q \in 1..Len(s) : s[p] = s[q] => p = q}

\* the owner reference lists over S of length at most n: distinct references
\* in any order, or one reference listed twice
OwnerLists(S, n) ==
    {s \in SeqsUpTo(S, n) :
        \A p, q \in 1..Len(s) : (p < q /\ s[p] = s[q]) => Len(s) = 2}

\* owner references a machine can carry
MachineOwnerRefs ==
    {OwnerRef(CAPIMachineSetKind, n) : n \in SetNames}
        \cup {OwnerRef(OtherOwnerKind, "s1")}

\* owner references a machine set can carry
MachineSetOwnerRefs ==
    {OwnerRef(CAPIMachineDeploymentKind, n) : n \in DeploymentNames}
        \cup {OwnerRef(OtherOwnerKind, "d1")}

MachineOwnerLists == DistinctOwnerLists(MachineOwnerRefs, MaxOwners)
MachineSetOwnerLists == OwnerLists(MachineSetOwnerRefs, MaxOwners)

\* the machine lists the machines list call can return: k machines, named in
\* key order, each with any owner references
MachineLists ==
    UNION {
        {[p \in 1..k |-> Obj(CAPIMachineResourceKind, MachineNames[p], o[p])] :
            o \in [1..k -> MachineOwnerLists]} : k \in 0..MaxMachines}

----------------------------------------------------------------------------
VARIABLES
    tool,                   \* the handler that runs
    pc,                     \* its position
    calls,                  \* log of the Gateway calls issued so far
    err,                    \* the error the handler returned ("" for nil)
    selectorOK,             \* LabelSelectorAsSelector accepts params.targetCluster
    machineName,            \* params.machineName
    clusterSets,            \* machine sets of the cluster seen so far: name -> owners
    machines,               \* result of the machines list call
    i,                      \* index of the range loop over machines
    j,                      \* index of the range loop over machineSet's owners
    machineSet,             \* local machineSet of the current iteration
    machineSetMap,
    machineDeploymentMap,
    capiMachines,
    capiMachineSets,
    capiMachineDeployments,
    ret,                    \* the three collections the function returned
    podResource,            \* InspectPod's locals
    replicaSetResource,
    parentResource,
    podMetrics,
    logs,
    nodeResource,           \* GetNodes' locals
    nodeMetricsResource,
    bundle,                 \* the resources handed to response.CreateMcpResponse
    poolSize,               \* getClusterType's arguments
    managementCluster,
    clusterType,            \* and its result
    params,                 \* getResource's / getResources' params (Kind, Name)
    gvr,                    \* the coordinates the kind was resolved to
    result,                 \* what getResource / getResources returned
    resolved,               \* log of the kind resolutions so far
    caller,                 \* the handler that called the running function
    request,                \* InspectCluster's params (Cluster, Namespace)
    ns,                     \* InspectCluster's locals
    provCluster,
    pool,                   \* index of the range loop over the machine pools
    machineConfigs,
    resources,
    namespace,              \* params.namespace of getCAPIMachineResources
    list,                   \* the answer of the remote list call
    world,                  \* the cluster state concurrent requests read
    walks,                  \* the locals of each concurrent request
    visited,                \* the visited-sets, one slot per request
    outputs                 \* the output collections, one slot per request

capiVars == <<selectorOK, machineName, namespace, clusterSets, machines, i, j, machineSet,
              machineSetMap, machineDeploymentMap, capiMachines,
              capiMachineSets, capiMachineDeployments, ret>>

inspectVars == <<podResource, replicaSetResource, parentResource, podMetrics,
                 logs, nodeResource, nodeMetricsResource, bundle>>

typeVars == <<poolSize, managementCluster, clusterType>>

gatewayVars == <<params, gvr, result, resolved, list>>

clusterVars == <<caller, request, ns, provCluster, pool, machineConfigs, resources>>

concVars == <<world, walks, visited, outputs>>

vars == <<tool, pc, calls, err, capiVars, inspectVars, typeVars, gatewayVars,
          clusterVars, concVars>>

Unseen == <<OwnerRef("unseen", "")>>

Call(op, kind, name, outcome) ==
    [op |-> op, kind |-> kind, name |-> name, outcome |-> outcome]

NilRet == [machines |-> <<>>, machineSets |-> <<>>, machineDeployments |-> <<>>]

\* a field of an unstructured object: absent, of the wrong type, or a value
Absent == "<absent>"
Malformed == "<malformed>"

importedHosted == <<"aksConfig", "eksConfig", "gkeConfig", "aliConfig">>

HostedBlocks == {importedHosted[k] : k \in 1..Len(importedHosted)}

NoCluster ==
    [provider |-> Absent, driver |-> Absent,
     imported |-> [b \in HostedBlocks |-> Absent]]

\* the zero schema.GroupVersionResource
ZeroGVR == [group |-> "", version |-> "", resource |-> ""]

\* the zero provisioningV1.Cluster: no RKEConfig, no status
NoProvCluster == [name |-> "", rke |-> FALSE, pools |-> 0, clusterName |-> ""]

----------------------------------------------------------------------------
(* getCAPIMachineResources *)

\* variant: the machine name filter is not applied
FilteredNever(machine, filter) == FALSE

\* the machine name filter of the range loop
Filtered(machine, filter) == filter /= "" /\ machine.name /= filter

\* setName after the loop over machine.GetOwnerReferences(): every owner of
\* kind MachineSet overwrites it
RECURSIVE SetNameOf(_)
SetNameOf(owners) ==
    IF owners = <<>> THEN ""
    ELSE LET last == owners[Len(owners)]
         IN IF last.kind = CAPIMachineSetKind THEN last.name
            ELSE SetNameOf(SubSeq(owners, 1, Len(owners) - 1))

\* variant: a machine joins capiMachines only once it has a machine set
AppendMachineOwned(ms, m) ==
    IF SetNameOf(m.owners) = "" THEN ms ELSE Append(ms, m)

\* line 337: an unfiltered machine joins capiMachines before its owners are read
AppendMachine(ms, m) == Append(ms, m)

\* variant: no visited-set for machine sets
NeedsMachineSetAlways(setName, seen) == TRUE

\* variant: no machine set is fetched
NeedsMachineSetNever(setName, seen) == FALSE

\* the machine set is fetched only when its name is not in machineSetMap
NeedsMachineSet(setName, seen) == setName \notin seen

\* variant: the owner's kind is not looked at
NeedsMachineDeploymentAnyKind(owner, seen) == owner.name \notin seen

\* an owner of the machine set is fetched only when it is a machine
\* deployment whose name is not in machineDeploymentMap
NeedsMachineDeployment(owner, seen) ==
    owner.kind = CAPIMachineDeploymentKind /\ owner.name \notin seen

\* the loop over the machine set's owners from the k-th on: the index of the
\* next owner to fetch, past the end when there is none
RECURSIVE NextOwner(_, _, _)
NextOwner(owners, k, seen) ==
    IF k > Len(owners) THEN k
    ELSE IF NeedsMachineDeployment(owners[k], seen) THEN k
    ELSE NextOwner(owners, k + 1, seen)

\* variant: a failed fetch is tried again
OnFetchErrorRetry(at) == at

\* lines 360-363 and 388-391: a failed fetch returns from the function
OnFetchError(at) == "done"

\* variant: a failed fetch returns what the walk collected so far
WalkFailureKeeps(ms, sets, deps) ==
    [machines |-> ms, machineSets |-> sets, machineDeployments |-> deps]

\* what the function returns when a fetch inside the walk fails
WalkFailure(ms, sets, deps) == NilRet

\* variant: NotFound of the list call is an error like any other
ListFailureStrict(e) == [ret |-> NilRet, err |-> e]

\* what the function returns for an error of the machines list call
ListFailure(e) ==
    IF IsNotFound(e) THEN [ret |-> NilRet, err |-> NoError]
    ELSE [ret |-> NilRet, err |-> e]

\* the locals of a handler that does not run
CAPIIdle ==
    /\ selectorOK = TRUE
    /\ machineName = ""
    /\ namespace = ""
    /\ clusterSets = [n \in SetNames |-> Unseen]
    /\ machines = <<>>
    /\ i = 0
    /\ j = 0
    /\ machineSet = Nil
    /\ machineSetMap = {}
    /\ machineDeploymentMap = {}
    /\ capiMachines = <<>>
    /\ capiMachineSets = <<>>
    /\ capiMachineDeployments = <<>>
    /\ ret = NilRet

InspectIdle ==
    /\ podResource = Nil
    /\ replicaSetResource = Nil
    /\ parentResource = Nil
    /\ podMetrics = Nil
    /\ logs = Nil
    /\ nodeResource = <<>>
    /\ nodeMetricsResource = <<>>
    /\ bundle = <<>>

TypeIdle ==
    /\ poolSize = 0
    /\ managementCluster = NoCluster
    /\ clusterType = [type |-> "", err |-> NoError]

GatewayIdle ==
    /\ params = [kind |-> "", name |-> ""]
    /\ gvr = ZeroGVR
    /\ result = <<>>
    /\ resolved = <<>>
    /\ list = <<>>

ClusterIdle ==
    /\ caller = ""
    /\ request = [cluster |-> "", namespace |-> ""]
    /\ ns = ""
    /\ provCluster = NoProvCluster
    /\ pool = 0
    /\ machineConfigs = <<>>
    /\ resources = <<>>

\* the requests that run concurrently
Requesters == {"r1", "r2"}

\* a machine set the cluster does not hold
Missing == <<OwnerRef("missing", "")>>

NoWorld == [machines |-> <<>>, sets |-> [n \in SetNames |-> Missing]]

NoneSeen == [sets |-> {}, deployments |-> {}]

\* the locals of a request that has not started
NoWalk ==
    [handler |-> "", pc |-> "list", machineName |-> "", machines |-> <<>>, i |-> 0, j |-> 0,
     machineSet |-> Nil, calls |-> <<>>, err |-> NoError, ret |-> NilRet,
     bundle |-> <<>>, responseErr |-> NoError]

ConcIdle ==
    /\ world = NoWorld
    /\ walks = [r \in Requesters |-> NoWalk]
    /\ visited = [r \in Requesters |-> NoneSeen]
    /\ outputs = [r \in Requesters |-> NilRet]

InitCAPI ==
    /\ tool = "getCAPIMachineResources"
    /\ pc = "start"
    /\ calls = <<>>
    /\ err = NoError
    /\ InspectIdle
    /\ TypeIdle
    /\ GatewayIdle
    /\ ClusterIdle
    /\ ConcIdle
    /\ selectorOK \in BOOLEAN
    /\ machineName \in {"", MachineNames[2]}
    /\ namespace = "fleet-default"
    /\ clusterSets = [n \in SetNames |-> Unseen]
    /\ machines = <<>>
    /\ i = 0
    /\ j = 0
    /\ machineSet = Nil
    /\ machineSetMap = {}
    /\ machineDeploymentMap = {}
    /\ capiMachines = <<>>
    /\ capiMachineSets = <<>>
    /\ capiMachineDeployments = <<>>
    /\ ret = NilRet

\* the machine lists the walk can be given when InspectCluster calls it: at
\* most MaxClusterMachines machines, each with at most one owner reference
ClusterMachineLists ==
    {ms \in MachineLists :
        /\ Len(ms) <= MaxClusterMachines
        /\ \A p \in 1..Len(ms) : Len(ms[p].owners) <= 1}

\* and the owner references of the machine sets it can then fetch
ClusterSetOwnerLists == {o \in MachineSetOwnerLists : Len(o) <= 1}

\* what the machines list call can return
ListedMachines(from) ==
    IF from = "InspectCluster" THEN ClusterMachineLists ELSE MachineLists

\* the owner references a fetched machine set can carry
FetchedSetOwners(from) ==
    IF from = "InspectCluster" THEN ClusterSetOwnerLists ELSE MachineSetOwnerLists

\* lines 292-294: an empty params.namespace means fleet-default
DefaultNamespace(n) == IF n = "" THEN "fleet-default" ELSE n

\* lines 292-304: the namespace is defaulted and the label selector is built
\* before any Gateway call
BuildSelector ==
    /\ tool = "getCAPIMachineResources" /\ pc = "start"
    /\ namespace' = DefaultNamespace(namespace)
    /\ IF selectorOK
         THEN pc' = "list" /\ err' = err
         ELSE pc' = "done" /\ err' = "SelectorError"
    /\ UNCHANGED <<tool, calls, selectorOK, machineName, clusterSets, machines,
                   i, j, machineSet, machineSetMap, machineDeploymentMap,
                   capiMachines, capiMachineSets, capiMachineDeployments, ret,
                   inspectVars, typeVars, gatewayVars, clusterVars, concVars>>

\* lines 306-329: the machines list call
ListMachines ==
    /\ tool = "getCAPIMachineResources" /\ pc = "list"
    /\ \/ \E ms \in ListedMachines(caller) :
            /\ calls' = Append(calls, Call("list", CAPIMachineResourceKind, "", "ok"))
            /\ machines' = ms
            /\ i' = 1
            /\ pc' = "loop"
            /\ UNCHANGED <<err, ret>>
       \/ \E e \in ErrKinds :
            /\ calls' = Append(calls, Call("list", CAPIMachineResourceKind, "", e))
            /\ ret' = ListFailure(e).ret
            /\ err' = ListFailure(e).err
            /\ pc' = "done"
            /\ UNCHANGED <<machines, i>>
    /\ UNCHANGED <<tool, selectorOK, machineName, namespace, clusterSets, j, machineSet,
                   machineSetMap, machineDeploymentMap, capiMachines,
                   capiMachineSets, capiMachineDeployments,
                   inspectVars, typeVars, gatewayVars,
                   clusterVars, concVars>>

\* lines 331-351, 368-370 and 397: one iteration of the loop over machines up
\* to the fetch of its machine set, or the return after the last machine
LoopMachine ==
    /\ tool = "getCAPIMachineResources" /\ pc = "loop"
    /\ IF i > Len(machines)
         THEN /\ ret' = [machines |-> capiMachines,
                         machineSets |-> capiMachineSets,
                         machineDeployments |-> capiMachineDeployments]
              /\ pc' = "done"
              /\ UNCHANGED <<i, machineSet, capiMachines>>
         ELSE /\ ret' = ret
              /\ IF Filtered(machines[i], machineName)
                   THEN /\ i' = i + 1
                        /\ pc' = pc
                        /\ UNCHANGED <<machineSet, capiMachines>>
                   ELSE /\ capiMachines' = AppendMachine(capiMachines, machines[i])
                        /\ machineSet' = Nil
                        /\ LET setName == SetNameOf(machines[i].owners)
                           IN IF setName /= "" /\ NeedsMachineSet(setName, machineSetMap)
                                THEN pc' = "getMachineSet" /\ i' = i
                                ELSE pc' = pc /\ i' = i + 1
    /\ UNCHANGED <<tool, calls, err, selectorOK, machineName, namespace, clusterSets,
                   machines, j, machineSetMap, machineDeploymentMap,
                   capiMachineSets, capiMachineDeployments,
                   inspectVars, typeVars, gatewayVars,
                   clusterVars, concVars>>

\* lines 352-379: the fetch of the machine set of machines[i], and the loop
\* over its owners up to the first fetch of a machine deployment
GetMachineSet ==
    /\ tool = "getCAPIMachineResources" /\ pc = "getMachineSet"
    /\ LET setName == SetNameOf(machines[i].owners)
       IN \/ \E o \in FetchedSetOwners(caller) :
               /\ clusterSets[setName] \in {Unseen, o}
               /\ clusterSets' = [clusterSets EXCEPT ![setName] = o]
               /\ calls' = Append(calls,
                                  Call("get", CAPIMachineSetResourceKind, setName, "ok"))
               /\ machineSet' = Obj(CAPIMachineSetResourceKind, setName, o)
               /\ capiMachineSets' = Append(capiMachineSets, machineSet')
               /\ machineSetMap' = machineSetMap \cup {machineSet'.name}
               /\ j' = NextOwner(o, 1, machineDeploymentMap)
               /\ IF j' > Len(o)
                    THEN pc' = "loop" /\ i' = i + 1
                    ELSE pc' = "getMachineDeployment" /\ i' = i
               /\ UNCHANGED <<err, ret>>
          \/ \E e \in ErrKinds :
               /\ calls' = Append(calls,
                                  Call("get", CAPIMachineSetResourceKind, setName, e))
               /\ err' = e
               /\ ret' = WalkFailure(capiMachines, capiMachineSets,
                                     capiMachineDeployments)
               /\ pc' = OnFetchError("getMachineSet")
               /\ UNCHANGED <<clusterSets, machineSet, capiMachineSets,
                              machineSetMap, i, j>>
    /\ UNCHANGED <<tool, selectorOK, machineName, namespace, machines,
                   machineDeploymentMap, capiMachines, capiMachineDeployments,
                   inspectVars, typeVars, gatewayVars,
                   clusterVars, concVars>>

\* lines 372-394: the fetch of the machine deployment named by owner j, and
\* the loop over the owners up to the next fetch
GetMachineDeployment ==
    /\ tool = "getCAPIMachineResources" /\ pc = "getMachineDeployment"
    /\ LET owner == machineSet.owners[j]
       IN \/ /\ calls' = Append(calls,
                    Call("get", CAPIMachineDeploymentResourceKind, owner.name, "ok"))
             /\ capiMachineDeployments' =
                    Append(capiMachineDeployments,
                           Obj(CAPIMachineDeploymentResourceKind, owner.name, <<>>))
             /\ machineDeploymentMap' = machineDeploymentMap \cup {owner.name}
             /\ j' = NextOwner(machineSet.owners, j + 1, machineDeploymentMap')
             /\ IF j' > Len(machineSet.owners)
                  THEN pc' = "loop" /\ i' = i + 1
                  ELSE pc' = "getMachineDeployment" /\ i' = i
             /\ UNCHANGED <<err, ret>>
          \/ \E e \in ErrKinds :
               /\ calls' = Append(calls,
                      Call("get", CAPIMachineDeploymentResourceKind, owner.name, e))
               /\ err' = e
               /\ ret' = WalkFailure(capiMachines, capiMachineSets,
                                     capiMachineDeployments)
               /\ pc' = OnFetchError("getMachineDeployment")
               /\ UNCHANGED <<capiMachineDeployments, machineDeploymentMap, i, j>>
    /\ UNCHANGED <<tool, selectorOK, machineName, namespace, clusterSets, machines,
                   machineSet, machineSetMap, capiMachines, capiMachineSets,
                   inspectVars, typeVars, gatewayVars,
                   clusterVars, concVars>>

NextCAPI ==
    \/ BuildSelector
    \/ ListMachines
    \/ LoopMachine
    \/ GetMachineSet
    \/ GetMachineDeployment

SpecCAPI == InitCAPI /\ [][NextCAPI]_vars

----------------------------------------------------------------------------
(* InspectPod and GetNodes *)

PodName == "p1"
NodeNames == <<"n1", "n2", "n3">>

ParentKinds == {"Deployment", "StatefulSet", "DaemonSet"}

\* owner references a pod can carry
PodOwnerRefs ==
    {OwnerRef("ReplicaSet", "rs1"), OwnerRef("ReplicaSet", "rs2"),
     OwnerRef("Job", "rs1")}

\* owner references a replicaset can carry
ReplicaSetOwnerRefs ==
    {OwnerRef("Deployment", "c1"), OwnerRef("StatefulSet", "c2"),
     OwnerRef("DaemonSet", "c3"), OwnerRef("Rollout", "c1")}

PodOwnerLists == OwnerLists(PodOwnerRefs, MaxOwners)
ReplicaSetOwnerLists == OwnerLists(ReplicaSetOwnerRefs, MaxOwners)

\* an object that FromUnstructured cannot convert to its typed struct
Unconvertible == <<OwnerRef(Malformed, "")>>

\* strings.ToLower on the kinds that reach getResource
ToLower(kind) ==
    CASE kind = "Deployment" -> "deployment"
      [] kind = "StatefulSet" -> "statefulset"
      [] kind = "DaemonSet" -> "daemonset"
      [] kind \in {"Pod", "POD"} -> "pod"
      [] kind = "MachineSet" -> "machineset"
      [] kind = "Widget" -> "widget"
      [] OTHER -> kind

\* the outcomes of resourceInterface.Get: the dynamic client rejects an empty
\* name before any request is sent
GetOutcomes(name) ==
    IF name = "" THEN {"NameRequired"} ELSE {"ok"} \cup ErrKinds

ListOutcomes == {"ok"} \cup ErrKinds

\* the first owner whose kind is in kinds, as the loops that break on a match
\* find it; the zero value when there is none
RECURSIVE FirstOwner(_, _)
FirstOwner(owners, kinds) ==
    IF owners = <<>> THEN OwnerRef("", "")
    ELSE IF Head(owners).kind \in kinds THEN Head(owners)
    ELSE FirstOwner(Tail(owners), kinds)

\* replicaSetName after the loop over pod.OwnerReferences
ReplicaSetNameOf(owners) == FirstOwner(owners, {"ReplicaSet"}).name

\* parentKind and parentName after the loop over replicaSet.OwnerReferences
ParentOf(owners) == FirstOwner(owners, ParentKinds)

\* variant: the error of the pod metrics fetch is returned
PodMetricsErrorReturned(e) == e

\* `podMetrics, _ := t.getResource(...)`: the error is dropped
PodMetricsError(e) == NoError

\* `nodeMetricsResource, _ := t.getResources(...)`: the error is dropped
NodeMetricsError(e) == NoError

\* the resources InspectPod hands to the formatter
PodBundle(pod, parent, lg, metrics) ==
    <<pod, parent, lg>> \o (IF metrics /= Nil THEN <<metrics>> ELSE <<>>)

NodeLists ==
    {[p \in 1..k |-> Obj("node", NodeNames[p], <<>>)] : k \in 0..MaxNodes}

NodeMetricsLists ==
    {[p \in 1..k |-> Obj("node.metrics.k8s.io", NodeNames[p], <<>>)] :
        k \in 0..MaxNodes}

InitInspect ==
    /\ tool \in {"InspectPod", "GetNodes"}
    /\ pc = IF tool = "InspectPod" THEN "getPod" ELSE "listNodes"
    /\ calls = <<>>
    /\ err = NoError
    /\ CAPIIdle
    /\ InspectIdle
    /\ TypeIdle
    /\ GatewayIdle
    /\ ClusterIdle
    /\ ConcIdle

\* workloads.go lines 25-42: the pod is fetched and converted
GetPod ==
    /\ tool = "InspectPod" /\ pc = "getPod"
    /\ \E r \in GetOutcomes(PodName) :
        /\ calls' = Append(calls, Call("get", "pod", PodName, r))
        /\ IF r = "ok"
             THEN \E o \in PodOwnerLists \cup {Unconvertible} :
                    /\ podResource' = Obj("pod", PodName, o)
                    /\ IF o = Unconvertible
                         THEN pc' = "done" /\ err' = "ConvertError"
                         ELSE pc' = "getReplicaSet" /\ err' = err
             ELSE pc' = "done" /\ err' = r /\ podResource' = podResource
    /\ UNCHANGED <<tool, replicaSetResource, parentResource, podMetrics, logs,
                   nodeResource, nodeMetricsResource, bundle, capiVars, typeVars, gatewayVars,
                   clusterVars, concVars>>

\* workloads.go lines 44-69: the replicaset named by the pod's owner is
\* fetched and converted
GetReplicaSet ==
    /\ tool = "InspectPod" /\ pc = "getReplicaSet"
    /\ LET replicaSetName == ReplicaSetNameOf(podResource.owners)
       IN \E r \in GetOutcomes(replicaSetName) :
            /\ calls' = Append(calls, Call("get", "replicaset", replicaSetName, r))
            /\ IF r = "ok"
                 THEN \E o \in ReplicaSetOwnerLists \cup {Unconvertible} :
                        /\ replicaSetResource' = Obj("replicaset", replicaSetName, o)
                        /\ IF o = Unconvertible
                             THEN pc' = "done" /\ err' = "ConvertError"
                             ELSE pc' = "getParent" /\ err' = err
                 ELSE /\ pc' = "done" /\ err' = r
                      /\ replicaSetResource' = replicaSetResource
    /\ UNCHANGED <<tool, podResource, parentResource, podMetrics, logs,
                   nodeResource, nodeMetricsResource, bundle, capiVars, typeVars, gatewayVars,
                   clusterVars, concVars>>

\* workloads.go lines 71-100: the controller named by the replicaset's owner
\* is fetched
GetParent ==
    /\ tool = "InspectPod" /\ pc = "getParent"
    /\ LET parent == ParentOf(replicaSetResource.owners)
       IN \E r \in GetOutcomes(parent.name) :
            /\ calls' = Append(calls, Call("get", ToLower(parent.kind), parent.name, r))
            /\ IF r = "ok"
                 THEN /\ parentResource' = Obj(ToLower(parent.kind), parent.name, <<>>)
                      /\ pc' = "getPodMetrics" /\ err' = err
                 ELSE /\ pc' = "done" /\ err' = r
                      /\ parentResource' = parentResource
    /\ UNCHANGED <<tool, podResource, replicaSetResource, podMetrics, logs,
                   nodeResource, nodeMetricsResource, bundle, capiVars, typeVars, gatewayVars,
                   clusterVars, concVars>>

\* workloads.go lines 102-110: the pod metrics are fetched
GetPodMetrics ==
    /\ tool = "InspectPod" /\ pc = "getPodMetrics"
    /\ \E r \in GetOutcomes(PodName) :
        /\ calls' = Append(calls, Call("get", "pod.metrics.k8s.io", PodName, r))
        /\ podMetrics' = IF r = "ok" THEN Obj("pod.metrics.k8s.io", PodName, <<>>)
                         ELSE Nil
        /\ err' = IF r = "ok" THEN NoError ELSE PodMetricsError(r)
        /\ pc' = IF err' = NoError THEN "getPodLogs" ELSE "done"
    /\ UNCHANGED <<tool, podResource, replicaSetResource, parentResource, logs,
                   nodeResource, nodeMetricsResource, bundle, capiVars, typeVars, gatewayVars,
                   clusterVars, concVars>>

\* workloads.go lines 112-116: the pod logs are read
GetPodLogs ==
    /\ tool = "InspectPod" /\ pc = "getPodLogs"
    /\ \E r \in {"ok", "LogsError"} :
        IF r = "ok"
          THEN logs' = Obj("pod-logs", "", <<>>) /\ pc' = "respondPod" /\ err' = err
          ELSE logs' = logs /\ pc' = "done" /\ err' = r
    /\ UNCHANGED <<tool, calls, podResource, replicaSetResource, parentResource,
                   podMetrics, nodeResource, nodeMetricsResource, bundle,
                   capiVars, typeVars, gatewayVars,
                   clusterVars, concVars>>

\* workloads.go lines 118-131: the bundle is built and formatted
RespondPod ==
    /\ tool = "InspectPod" /\ pc = "respondPod"
    /\ bundle' = PodBundle(podResource, parentResource, logs, podMetrics)
    /\ \E r \in {NoError, "ResponseError"} : err' = r
    /\ pc' = "done"
    /\ UNCHANGED <<tool, calls, podResource, replicaSetResource, parentResource,
                   podMetrics, logs, nodeResource, nodeMetricsResource,
                   capiVars, typeVars, gatewayVars,
                   clusterVars, concVars>>

\* provisioning.go lines 254-263: the nodes are listed
ListNodes ==
    /\ tool = "GetNodes" /\ pc = "listNodes"
    /\ \E r \in ListOutcomes :
        /\ calls' = Append(calls, Call("list", "node", "", r))
        /\ IF r = "ok"
             THEN /\ nodeResource' \in NodeLists
                  /\ pc' = "listNodeMetrics" /\ err' = err
             ELSE nodeResource' = nodeResource /\ pc' = "done" /\ err' = r
    /\ UNCHANGED <<tool, podResource, replicaSetResource, parentResource,
                   podMetrics, logs, nodeMetricsResource, bundle, capiVars,
                   typeVars, gatewayVars,
                   clusterVars, concVars>>

\* provisioning.go lines 265-271: the node metrics are listed
ListNodeMetrics ==
    /\ tool = "GetNodes" /\ pc = "listNodeMetrics"
    /\ \E r \in ListOutcomes :
        /\ calls' = Append(calls, Call("list", "node.metrics.k8s.io", "", r))
        /\ IF r = "ok"
             THEN nodeMetricsResource' \in NodeMetricsLists
             ELSE nodeMetricsResource' = <<>>
        /\ err' = IF r = "ok" THEN NoError ELSE NodeMetricsError(r)
        /\ pc' = IF err' = NoError THEN "respondNodes" ELSE "done"
    /\ UNCHANGED <<tool, podResource, replicaSetResource, parentResource,
                   podMetrics, logs, nodeResource, bundle, capiVars, typeVars, gatewayVars,
                   clusterVars, concVars>>

\* provisioning.go lines 273-281: the bundle is built and formatted
RespondNodes ==
    /\ tool = "GetNodes" /\ pc = "respondNodes"
    /\ bundle' = nodeResource \o nodeMetricsResource
    /\ \E r \in {NoError, "ResponseError"} : err' = r
    /\ pc' = "done"
    /\ UNCHANGED <<tool, calls, podResource, replicaSetResource, parentResource,
                   podMetrics, logs, nodeResource, nodeMetricsResource,
                   capiVars, typeVars, gatewayVars,
                   clusterVars, concVars>>

NextInspect ==
    \/ GetPod
    \/ GetReplicaSet
    \/ GetParent
    \/ GetPodMetrics
    \/ GetPodLogs
    \/ RespondPod
    \/ ListNodes
    \/ ListNodeMetrics
    \/ RespondNodes

SpecInspect == InitInspect /\ [][NextInspect]_vars

----------------------------------------------------------------------------
(* getClusterType *)

ClusterTypeImported == "imported"
ClusterTypeCustom == "custom"
ClusterTypeNodeDriver == "nodedriver"
ClusterTypeHosted == "hosted"

\* status.provider and status.driver of a management cluster
ProviderValues == {Absent, Malformed, "rke2", "k3s", "aks"}

\* spec.<hosted block>.imported of a management cluster
ImportedValues == {Absent, Malformed, "true", "false"}

ManagementClusters ==
    [provider : ProviderValues, driver : ProviderValues,
     imported : [HostedBlocks -> ImportedValues]]

\* the string unstructured.NestedString returns: "" when the field is absent
StringOf(field) == IF field = Absent THEN "" ELSE field

Failed(e) == [type |-> "", err |-> e]

Classified(t) == [type |-> t, err |-> NoError]

\* variant: the loop over importedHosted does not stop at the first block found
RECURSIVE HostedScanLast(_, _)
HostedScanLast(mc, k) ==
    IF k > Len(importedHosted)
      THEN [isHosted |-> FALSE, isImportedHosted |-> FALSE, err |-> NoError]
    ELSE LET imported == mc.imported[importedHosted[k]]
             rest == HostedScanLast(mc, k + 1)
         IN IF imported = Malformed
              THEN [isHosted |-> FALSE, isImportedHosted |-> FALSE,
                    err |-> "HostedImportedInfoError"]
            ELSE IF imported /= Absent /\ ~rest.isHosted /\ rest.err = NoError
              THEN [isHosted |-> TRUE, isImportedHosted |-> imported = "true",
                    err |-> NoError]
            ELSE rest

\* the loop over importedHosted from its k-th entry on: isHosted,
\* isImportedHosted, and the error of a malformed imported field
RECURSIVE HostedScan(_, _)
HostedScan(mc, k) ==
    IF k > Len(importedHosted)
      THEN [isHosted |-> FALSE, isImportedHosted |-> FALSE, err |-> NoError]
    ELSE LET imported == mc.imported[importedHosted[k]]
         IN IF imported = Malformed
              THEN [isHosted |-> FALSE, isImportedHosted |-> FALSE,
                    err |-> "HostedImportedInfoError"]
            ELSE IF imported /= Absent
              THEN [isHosted |-> TRUE, isImportedHosted |-> imported = "true",
                    err |-> NoError]
            ELSE HostedScan(mc, k + 1)

\* variant: only rke2 is looked at
ProviderIsDriverRke2(provider, driver) == provider = "rke2" /\ provider = driver

\* variant: the driver is not compared with the provider
ProviderIsDriverAnyDriver(provider, driver) == provider = "rke2" \/ provider = "k3s"

\* the rule of lines 529-534
ProviderIsDriver(provider, driver) ==
    (provider = "rke2" \/ provider = "k3s") /\ provider = driver

getClusterType(size, mc) ==
    IF mc.provider = Malformed THEN Failed("ProviderInfoError")
    ELSE IF mc.driver = Malformed THEN Failed("DriverInfoError")
    ELSE IF mc.provider = Absent /\ mc.driver = Absent THEN Failed("NoProviderInfo")
    ELSE LET hosted == HostedScan(mc, 1)
         IN IF hosted.err /= NoError THEN Failed(hosted.err)
            ELSE IF hosted.isHosted
              THEN IF hosted.isImportedHosted THEN Classified(ClusterTypeImported)
                   ELSE Classified(ClusterTypeHosted)
            ELSE IF ProviderIsDriver(StringOf(mc.provider), StringOf(mc.driver))
              THEN Classified(ClusterTypeImported)
            ELSE IF size = 0 THEN Classified(ClusterTypeCustom)
            ELSE Classified(ClusterTypeNodeDriver)

InitClusterType ==
    /\ tool = "getClusterType"
    /\ pc = "call"
    /\ calls = <<>>
    /\ err = NoError
    /\ CAPIIdle
    /\ InspectIdle
    /\ GatewayIdle
    /\ ClusterIdle
    /\ ConcIdle
    /\ poolSize \in 0..MaxPoolSize
    /\ managementCluster \in ManagementClusters
    /\ clusterType = [type |-> "", err |-> NoError]

\* provisioning.go lines 488-542
Classify ==
    /\ tool = "getClusterType" /\ pc = "call"
    /\ clusterType' = getClusterType(poolSize, managementCluster)
    /\ err' = clusterType'.err
    /\ pc' = "done"
    /\ UNCHANGED <<tool, calls, poolSize, managementCluster, capiVars, inspectVars,
                   gatewayVars, clusterVars, concVars>>

NextClusterType == Classify

SpecClusterType == InitClusterType /\ [][NextClusterType]_vars

----------------------------------------------------------------------------
(* getResource and getResources *)

\* the kind strings of the requests, grouped by spelling: the members of a
\* group differ only in the casing of their letters
Casings ==
    {{"pod", "Pod", "POD"}, {"machineset", "MachineSet"}, {"widget", "Widget"}}

KindInputs == UNION Casings

ResourceNames == {"a"}

\* converter.K8sKindsToGVRs: the static table keyed by lowercase kind string
K8sKindsToGVRs ==
    [k \in {"pod", "machineset"} |->
        IF k = "pod" THEN [group |-> "", version |-> "v1", resource |-> "pods"]
        ELSE [group |-> "cluster.x-k8s.io", version |-> "v1beta1",
              resource |-> "machinesets"]]

\* a Go map index: the zero value for a key the map does not hold
MapIndex(m, key) == IF key \in DOMAIN m THEN m[key] ELSE ZeroGVR

\* variant: the kind is looked up as it was given
ResolveKindExact(kind) == MapIndex(K8sKindsToGVRs, kind)

\* tools.go lines 161 and 175: converter.K8sKindsToGVRs[strings.ToLower(params.Kind)]
ResolveKind(kind) == MapIndex(K8sKindsToGVRs, ToLower(kind))

\* the item lists a list call can return
ItemLists(resource) ==
    {[p \in 1..k |-> Obj(resource, NodeNames[p], <<>>)] : k \in 0..MaxItems}

\* variant: every entry points at the loop variable, which holds the last item
ObjsOfLoopVariable(items) == [p \in 1..Len(items) |-> items[Len(items)]]

\* objs after the loop of lines 190-193: one entry per item, in the list's order
ObjsOf(items) == [p \in 1..Len(items) |-> items[p]]

RequestParams(t) ==
    IF t = "getResource"
      THEN [kind : KindInputs, name : ResourceNames]
      ELSE [kind : KindInputs, name : {""}]

InitGateway ==
    /\ tool \in {"getResource", "getResources"}
    /\ pc = "resolve"
    /\ calls = <<>>
    /\ err = NoError
    /\ CAPIIdle
    /\ InspectIdle
    /\ TypeIdle
    /\ ClusterIdle
    /\ ConcIdle
    /\ params \in RequestParams(tool)
    /\ gvr = ZeroGVR
    /\ result = <<>>
    /\ resolved = <<>>
    /\ list = <<>>

\* tools.go lines 161-164 and 175-178: the kind is resolved and the resource
\* interface of the cluster is made
GetResourceInterface ==
    /\ tool \in {"getResource", "getResources"} /\ pc = "resolve"
    /\ gvr' = ResolveKind(params.kind)
    /\ resolved' = Append(resolved, [kind |-> params.kind, gvr |-> gvr'])
    /\ \E r \in {"ok", "ClientError"} :
        IF r = "ok" THEN pc' = "remote" /\ err' = err
        ELSE pc' = "done" /\ err' = r
    /\ UNCHANGED <<tool, calls, params, result, list, capiVars, inspectVars, typeVars,
                   clusterVars, concVars>>

\* tools.go lines 166-171: resourceInterface.Get
RemoteGet ==
    /\ tool = "getResource" /\ pc = "remote"
    /\ \E r \in GetOutcomes(params.name) :
        /\ calls' = Append(calls, Call("get", gvr.resource, params.name, r))
        /\ IF r = "ok"
             THEN result' = <<Obj(gvr.resource, params.name, <<>>)>> /\ err' = err
             ELSE result' = <<>> /\ err' = r
    /\ pc' = "done"
    /\ UNCHANGED <<tool, params, gvr, resolved, list, capiVars, inspectVars, typeVars,
                   clusterVars, concVars>>

\* tools.go lines 180-194: resourceInterface.List and the copy of its items
RemoteList ==
    /\ tool = "getResources" /\ pc = "remote"
    /\ \E r \in ListOutcomes :
        /\ calls' = Append(calls, Call("list", gvr.resource, "", r))
        /\ IF r = "ok"
             THEN \E items \in ItemLists(gvr.resource) :
                    list' = items /\ result' = ObjsOf(items) /\ err' = err
             ELSE list' = <<>> /\ result' = <<>> /\ err' = r
    /\ pc' = "done"
    /\ UNCHANGED <<tool, params, gvr, resolved, capiVars, inspectVars, typeVars,
                   clusterVars, concVars>>

\* the next call of getResource or getResources
NextRequest ==
    /\ tool \in {"getResource", "getResources"} /\ pc = "done"
    /\ Len(resolved) < MaxRequests
    /\ tool' \in {"getResource", "getResources"}
    /\ params' \in RequestParams(tool')
    /\ pc' = "resolve"
    /\ err' = NoError
    /\ result' = <<>>
    /\ list' = <<>>
    /\ gvr' = ZeroGVR
    /\ UNCHANGED <<calls, resolved, capiVars, inspectVars, typeVars, clusterVars, concVars>>

NextGateway ==
    \/ GetResourceInterface
    \/ RemoteGet
    \/ RemoteList
    \/ NextRequest

SpecGateway == InitGateway /\ [][NextGateway]_vars

----------------------------------------------------------------------------
(* InspectCluster *)

LocalCluster == "local"

ProvisioningClusterResourceKind == "provisioningcluster"
CAPIClusterResourceKind == "capicluster"
ManagementClusterResourceKind == "managementcluster"
ClusterRegistrationTokenResourceKind == "clusterregistrationtoken"
MachineConfigResourceKind == "rke-machine-config.cattle.io"

\* the requests: params.Cluster and params.Namespace
Requests == [cluster : {LocalCluster, "c1"}, namespace : {"", "ns1"}]

\* lines 115-122: the namespace of the provisioning cluster
NamespaceOf(req) ==
    IF req.cluster /= LocalCluster THEN "fleet-default"
    ELSE IF req.namespace = "" THEN "fleet-default"
    ELSE req.namespace

\* the provisioning clusters of a name: with or without spec.rkeConfig, with
\* any number of machine pools
ProvClusters(name) ==
    {[name |-> name, rke |-> FALSE, pools |-> 0, clusterName |-> "c-m-1"]}
        \cup {[name |-> name, rke |-> TRUE, pools |-> k, clusterName |-> "c-m-1"] :
                    k \in 0..MaxPoolSize}

\* pool.NodeConfig.Name of the p-th machine pool
PoolConfigNames == <<"cfg1", "cfg2", "cfg3">>

\* the management clusters the management cluster fetch can return
FetchedManagementClusters ==
    {mc \in ManagementClusters :
        /\ mc.provider \in {Absent, "rke2"}
        /\ mc.driver \in {Absent, "rke2", "aks"}
        /\ mc.imported["aksConfig"] \in {Absent, "true", "false"}
        /\ \A b \in HostedBlocks \ {"aksConfig"} : mc.imported[b] = Absent}

\* the clusterType entry of lines 212-214
ClusterTypeMarker(t) == Obj("clusterType", t, <<>>)

\* variant: the registration token is fetched for every cluster
NeedsRegistrationTokenAlways(t) == TRUE

\* line 215: the registration token is fetched for custom and imported clusters
NeedsRegistrationToken(t) == t \in {ClusterTypeCustom, ClusterTypeImported}

\* variant: NotFound of an optional lookup is an error like any other
OptionalFailureStrict(r) == r /= "ok"

\* lines 151, 224 and 447-453: an optional lookup fails the invocation on
\* any error but NotFound
OptionalFailure(r) == r /= "ok" /\ ~IsNotFound(r)

\* variant: a management cluster that is not found is left out
ManagementClusterErrorLenient(e) == IF IsNotFound(e) THEN NoError ELSE e

\* lines 196-199: any error of the management cluster fetch is returned
ManagementClusterError(e) == e

InitCluster ==
    /\ tool = "InspectCluster"
    /\ pc = "getProvisioningCluster"
    /\ calls = <<>>
    /\ err = NoError
    /\ CAPIIdle
    /\ InspectIdle
    /\ TypeIdle
    /\ GatewayIdle
    /\ ConcIdle
    /\ caller = ""
    /\ request \in Requests
    /\ ns = ""
    /\ provCluster = NoProvCluster
    /\ pool = 0
    /\ machineConfigs = <<>>
    /\ resources = <<>>

\* lines 115-140 and 400-425: the provisioning cluster is fetched and converted
GetProvisioningCluster ==
    /\ tool = "InspectCluster" /\ pc = "getProvisioningCluster"
    /\ ns' = NamespaceOf(request)
    /\ \E r \in GetOutcomes(request.cluster) :
        /\ calls' = Append(calls,
                Call("get", ProvisioningClusterResourceKind, request.cluster, r))
        /\ IF r = "ok"
             THEN \/ \E c \in ProvClusters(request.cluster) :
                        /\ provCluster' = c
                        /\ resources' =
                            <<Obj(ProvisioningClusterResourceKind, c.name, <<>>)>>
                        /\ pc' = "getCAPICluster" /\ err' = err
                  \/ /\ pc' = "done" /\ err' = "ConvertError"
                     /\ UNCHANGED <<provCluster, resources>>
             ELSE /\ pc' = "done" /\ err' = r
                  /\ UNCHANGED <<provCluster, resources>>
    /\ UNCHANGED <<tool, caller, request, pool, machineConfigs, capiVars,
                   inspectVars, typeVars, gatewayVars, concVars>>

\* lines 142-157: the CAPI cluster is fetched
GetCAPICluster ==
    /\ tool = "InspectCluster" /\ pc = "getCAPICluster"
    /\ \E r \in GetOutcomes(provCluster.name) :
        /\ calls' = Append(calls, Call("get", CAPIClusterResourceKind, provCluster.name, r))
        /\ IF OptionalFailure(r)
             THEN pc' = "done" /\ err' = r /\ UNCHANGED <<resources, pool>>
             ELSE /\ resources' = Append(resources,
                        IF r = "ok"
                          THEN Obj(CAPIClusterResourceKind, provCluster.name, <<>>)
                          ELSE Nil)
                  /\ pool' = 1
                  /\ pc' = "machinePools" /\ err' = err
    /\ UNCHANGED <<tool, caller, request, ns, provCluster, machineConfigs,
                   capiVars, inspectVars, typeVars, gatewayVars, concVars>>

\* lines 159-165 and 427-456: one iteration of the loop over the machine
\* pools, or the return of getMachinePoolConfigs after the last pool
MachinePoolConfigs ==
    /\ tool = "InspectCluster" /\ pc = "machinePools"
    /\ IF ~provCluster.rke
         THEN /\ pc' = "done" /\ err' = "NilPointerPanic"
              /\ UNCHANGED <<calls, pool, machineConfigs, resources>>
         ELSE IF pool > provCluster.pools
         THEN /\ resources' = resources \o machineConfigs
              /\ pc' = "callWalk"
              /\ UNCHANGED <<calls, err, pool, machineConfigs>>
         ELSE \E r \in GetOutcomes(PoolConfigNames[pool]) :
                /\ calls' = Append(calls,
                        Call("get", MachineConfigResourceKind, PoolConfigNames[pool], r))
                /\ IF OptionalFailure(r)
                     THEN /\ pc' = "done" /\ err' = r
                          /\ UNCHANGED <<pool, machineConfigs>>
                     ELSE /\ machineConfigs' =
                                IF r = "ok"
                                  THEN Append(machineConfigs,
                                              Obj(MachineConfigResourceKind,
                                                  PoolConfigNames[pool], <<>>))
                                  ELSE machineConfigs
                          /\ pool' = pool + 1
                          /\ pc' = pc /\ err' = err
                /\ UNCHANGED resources
    /\ UNCHANGED <<tool, caller, request, ns, provCluster, capiVars,
                   inspectVars, typeVars, gatewayVars, concVars>>

\* line 169: the walk is given params.Namespace
WalkNamespace(req, local) == req.namespace

\* lines 167-171: getCAPIMachineResources is called
CallWalk ==
    /\ tool = "InspectCluster" /\ pc = "callWalk"
    /\ tool' = "getCAPIMachineResources"
    /\ caller' = "InspectCluster"
    /\ pc' = "start"
    /\ selectorOK' \in BOOLEAN
    /\ machineName' = ""
    /\ namespace' = WalkNamespace(request, ns)
    /\ UNCHANGED <<calls, err, clusterSets, machines, i, j, machineSet,
                   machineSetMap, machineDeploymentMap, capiMachines,
                   capiMachineSets, capiMachineDeployments, ret,
                   request, ns, provCluster, pool, machineConfigs, resources,
                   inspectVars, typeVars, gatewayVars, concVars>>

\* lines 172-183: getCAPIMachineResources has returned
WalkReturn ==
    /\ tool = "getCAPIMachineResources" /\ caller = "InspectCluster" /\ pc = "done"
    /\ tool' = "InspectCluster"
    /\ caller' = ""
    /\ IF err /= NoError /\ ~IsNotFound(err)
         THEN pc' = "done" /\ err' = err /\ resources' = resources
         ELSE /\ resources' = resources \o ret.machines \o ret.machineSets
                                    \o ret.machineDeployments
              /\ pc' = "getManagementCluster"
              /\ err' = NoError
    /\ selectorOK' = TRUE
    /\ machineName' = ""
    /\ namespace' = ""
    /\ clusterSets' = [n \in SetNames |-> Unseen]
    /\ machines' = <<>>
    /\ i' = 0
    /\ j' = 0
    /\ machineSet' = Nil
    /\ machineSetMap' = {}
    /\ machineDeploymentMap' = {}
    /\ capiMachines' = <<>>
    /\ capiMachineSets' = <<>>
    /\ capiMachineDeployments' = <<>>
    /\ ret' = NilRet
    /\ UNCHANGED <<calls, request, ns, provCluster, pool, machineConfigs,
                   inspectVars, typeVars, gatewayVars, concVars>>

\* lines 185-214: the management cluster is fetched and the cluster is
\* classified
GetManagementCluster ==
    /\ tool = "InspectCluster" /\ pc = "getManagementCluster"
    /\ \E r \in GetOutcomes(provCluster.clusterName) :
        /\ calls' = Append(calls,
                Call("get", ManagementClusterResourceKind, provCluster.clusterName, r))
        /\ IF r /= "ok" /\ ManagementClusterError(r) /= NoError
             THEN /\ pc' = "done" /\ err' = ManagementClusterError(r)
                  /\ UNCHANGED <<resources, typeVars>>
             ELSE \E mc \in IF r = "ok" THEN FetchedManagementClusters
                             ELSE {NoCluster} :
                    /\ managementCluster' = mc
                    /\ poolSize' = IF provCluster.rke THEN provCluster.pools ELSE 0
                    /\ clusterType' = getClusterType(poolSize', mc)
                    /\ resources' = resources \o
                        <<IF r = "ok"
                            THEN Obj(ManagementClusterResourceKind,
                                     provCluster.clusterName, <<>>)
                            ELSE Nil,
                          ClusterTypeMarker(clusterType'.type)>>
                    /\ pc' = IF NeedsRegistrationToken(clusterType'.type)
                               THEN "getRegistrationToken" ELSE "respond"
                    /\ err' = err
    /\ UNCHANGED <<tool, caller, request, ns, provCluster, pool, machineConfigs,
                   capiVars, inspectVars, gatewayVars, concVars>>

\* lines 215-231: the registration token is fetched
GetRegistrationToken ==
    /\ tool = "InspectCluster" /\ pc = "getRegistrationToken"
    /\ \E r \in GetOutcomes("default-token") :
        /\ calls' = Append(calls,
                Call("get", ClusterRegistrationTokenResourceKind, "default-token", r))
        /\ IF OptionalFailure(r)
             THEN /\ pc' = "done" /\ err' = "RegistrationTokenError"
                  /\ resources' = resources
             ELSE /\ resources' =
                        IF r = "ok"
                          THEN Append(resources,
                                      Obj(ClusterRegistrationTokenResourceKind,
                                          "default-token", <<>>))
                          ELSE resources
                  /\ pc' = "respond" /\ err' = err
    /\ UNCHANGED <<tool, caller, request, ns, provCluster, pool, machineConfigs,
                   capiVars, inspectVars, typeVars, gatewayVars, concVars>>

\* lines 233-241: the resources are formatted
RespondCluster ==
    /\ tool = "InspectCluster" /\ pc = "respond"
    /\ \E r \in {NoError, "ResponseError"} :
        /\ err' = r
        /\ bundle' = IF r = NoError THEN resources ELSE bundle
    /\ pc' = "done"
    /\ UNCHANGED <<tool, calls, podResource, replicaSetResource, parentResource,
                   podMetrics, logs, nodeResource, nodeMetricsResource,
                   capiVars, typeVars, gatewayVars, clusterVars, concVars>>

NextCluster ==
    \/ GetProvisioningCluster
    \/ GetCAPICluster
    \/ MachinePoolConfigs
    \/ CallWalk
    \/ BuildSelector
    \/ ListMachines
    \/ LoopMachine
    \/ GetMachineSet
    \/ GetMachineDeployment
    \/ WalkReturn
    \/ GetManagementCluster
    \/ GetRegistrationToken
    \/ RespondCluster

SpecCluster == InitCluster /\ [][NextCluster]_vars

----------------------------------------------------------------------------
(* InspectClusterMachines and GetClusterMachine, requests running concurrently *)

\* the cluster states the requests read: the machines of the target cluster
\* in the order the list call returns them, each with at most one owner
\* reference, and for each machine set name its owner references, or Missing
Worlds ==
    [machines : {ms \in UNION {
                        {[p \in 1..k |-> Obj(CAPIMachineResourceKind,
                                             MachineNames[p], o[p])] :
                            o \in [1..k -> MachineOwnerLists]} :
                        k \in 0..MaxSharedMachines} :
                    \A p \in 1..Len(ms) : Len(ms[p].owners) <= 1},
     sets : [SetNames -> ClusterSetOwnerLists \cup {Missing}]]

\* variant: every request uses the visited-sets of the first
VisitedSlotShared(r) == "r1"

\* lines 327-328: machineSetMap and machineDeploymentMap are locals of the call
VisitedSlot(r) == r

\* variant: every request appends to the collections of the first
OutputSlotShared(r) == "r1"

\* line 329 and the named results: the three collections are locals of the call
OutputSlot(r) == r

\* the locals of request r, its visited-sets and its collections
FrameOf(r) ==
    [w |-> walks[r], seen |-> visited[VisitedSlot(r)], out |-> outputs[OutputSlot(r)]]

\* lines 306-329: the machines are listed and the maps are made
ListStep(f, wd) ==
    [w |-> [f.w EXCEPT !.calls = Append(@, Call("list", CAPIMachineResourceKind, "", "ok")),
                       !.machines = wd.machines,
                       !.i = 1,
                       !.pc = "loop"],
     seen |-> NoneSeen,
     out |-> NilRet]

\* lines 331-351, 368-370 and 397: one iteration of the loop over machines up
\* to the fetch of its machine set, or the return after the last machine
LoopStep(f) ==
    IF f.w.i > Len(f.w.machines)
      THEN [f EXCEPT !.w.ret = f.out, !.w.pc = "done"]
    ELSE IF Filtered(f.w.machines[f.w.i], f.w.machineName)
      THEN [f EXCEPT !.w.i = @ + 1]
    ELSE LET m == f.w.machines[f.w.i]
             setName == SetNameOf(m.owners)
             fetch == setName /= "" /\ NeedsMachineSet(setName, f.seen.sets)
         IN [f EXCEPT !.out.machines = AppendMachine(@, m),
                      !.w.machineSet = Nil,
                      !.w.pc = IF fetch THEN "getMachineSet" ELSE @,
                      !.w.i = IF fetch THEN @ ELSE @ + 1]

\* lines 352-379: the fetch of the machine set of machines[i], and the loop
\* over its owners up to the first fetch of a machine deployment
SetStep(f, wd) ==
    LET setName == SetNameOf(f.w.machines[f.w.i].owners)
        o == wd.sets[setName]
    IN IF o = Missing
         THEN [f EXCEPT
                 !.w.calls = Append(@, Call("get", CAPIMachineSetResourceKind,
                                            setName, "NotFound")),
                 !.w.err = "NotFound",
                 !.w.ret = WalkFailure(f.out.machines, f.out.machineSets,
                                       f.out.machineDeployments),
                 !.w.pc = OnFetchError("getMachineSet")]
         ELSE LET k == NextOwner(o, 1, f.seen.deployments)
              IN [f EXCEPT
                    !.w.calls = Append(@, Call("get", CAPIMachineSetResourceKind,
                                               setName, "ok")),
                    !.w.machineSet = Obj(CAPIMachineSetResourceKind, setName, o),
                    !.out.machineSets =
                        Append(@, Obj(CAPIMachineSetResourceKind, setName, o)),
                    !.seen.sets = @ \cup {setName},
                    !.w.j = k,
                    !.w.pc = IF k > Len(o) THEN "loop" ELSE "getMachineDeployment",
                    !.w.i = IF k > Len(o) THEN @ + 1 ELSE @]

\* lines 372-394: the fetch of the machine deployment named by owner j, and
\* the loop over the owners up to the next fetch
DeploymentStep(f) ==
    LET owners == f.w.machineSet.owners
        owner == owners[f.w.j]
        k == NextOwner(owners, f.w.j + 1, f.seen.deployments \cup {owner.name})
    IN [f EXCEPT
          !.w.calls = Append(@, Call("get", CAPIMachineDeploymentResourceKind,
                                     owner.name, "ok")),
          !.out.machineDeployments =
              Append(@, Obj(CAPIMachineDeploymentResourceKind, owner.name, <<>>)),
          !.seen.deployments = @ \cup {owner.name},
          !.w.j = k,
          !.w.pc = IF k > Len(owners) THEN "loop" ELSE "getMachineDeployment",
          !.w.i = IF k > Len(owners) THEN @ + 1 ELSE @]

\* the requests: InspectClusterMachines of the cluster, or GetClusterMachine
\* of its second machine
ConcurrentRequests ==
    {[NoWalk EXCEPT !.handler = "InspectClusterMachines"],
     [NoWalk EXCEPT !.handler = "GetClusterMachine", !.machineName = MachineNames[2]]}

\* lines 57 and 93-98: the resources the handler hands to the formatter
MachinesBundle(handler, r) ==
    IF handler = "GetClusterMachine" THEN r.machines
    ELSE r.machines \o r.machineSets \o r.machineDeployments

InitConcurrent ==
    /\ tool = "requests"
    /\ pc = "serve"
    /\ calls = <<>>
    /\ err = NoError
    /\ CAPIIdle
    /\ InspectIdle
    /\ TypeIdle
    /\ GatewayIdle
    /\ ClusterIdle
    /\ world \in Worlds
    /\ walks \in [Requesters -> ConcurrentRequests]
    /\ visited = [r \in Requesters |-> NoneSeen]
    /\ outputs = [r \in Requesters |-> NilRet]

\* the frame f of request r is written back
Store(r, f) ==
    /\ walks' = [walks EXCEPT ![r] = f.w]
    /\ visited' = [visited EXCEPT ![VisitedSlot(r)] = f.seen]
    /\ outputs' = [outputs EXCEPT ![OutputSlot(r)] = f.out]
    /\ calls' = calls \o SubSeq(f.w.calls, Len(walks[r].calls) + 1, Len(f.w.calls))

\* lines 306-329, by one of the requests
ConcListMachines ==
    /\ tool = "requests"
    /\ \E r \in Requesters :
        /\ walks[r].pc = "list"
        /\ Store(r, ListStep(FrameOf(r), world))
    /\ UNCHANGED <<tool, pc, err, world, capiVars, inspectVars, typeVars,
                   gatewayVars, clusterVars>>

\* lines 331-351, 368-370 and 397, by one of the requests
ConcLoopMachine ==
    /\ tool = "requests"
    /\ \E r \in Requesters :
        /\ walks[r].pc = "loop"
        /\ Store(r, LoopStep(FrameOf(r)))
    /\ UNCHANGED <<tool, pc, err, world, capiVars, inspectVars, typeVars,
                   gatewayVars, clusterVars>>

\* lines 352-379, by one of the requests
ConcGetMachineSet ==
    /\ tool = "requests"
    /\ \E r \in Requesters :
        /\ walks[r].pc = "getMachineSet"
        /\ Store(r, SetStep(FrameOf(r), world))
    /\ UNCHANGED <<tool, pc, err, world, capiVars, inspectVars, typeVars,
                   gatewayVars, clusterVars>>

\* lines 372-394, by one of the requests
ConcGetMachineDeployment ==
    /\ tool = "requests"
    /\ \E r \in Requesters :
        /\ walks[r].pc = "getMachineDeployment"
        /\ Store(r, DeploymentStep(FrameOf(r)))
    /\ UNCHANGED <<tool, pc, err, world, capiVars, inspectVars, typeVars,
                   gatewayVars, clusterVars>>

\* lines 49-64 and 88-105: the handler after the walk has returned
ConcRespond ==
    /\ tool = "requests"
    /\ \E r \in Requesters :
        /\ walks[r].pc = "done"
        /\ IF walks[r].err /= NoError
             THEN walks' = [walks EXCEPT ![r].pc = "responded",
                                         ![r].responseErr = walks[r].err]
             ELSE \E e \in {NoError, "ResponseError"} :
                    walks' = [walks EXCEPT ![r].pc = "responded",
                                           ![r].bundle = MachinesBundle(walks[r].handler,
                                                                      walks[r].ret),
                                           ![r].responseErr = e]
    /\ UNCHANGED <<tool, pc, calls, err, world, visited, outputs, capiVars,
                   inspectVars, typeVars, gatewayVars, clusterVars>>

NextConcurrent ==
    \/ ConcListMachines
    \/ ConcLoopMachine
    \/ ConcGetMachineSet
    \/ ConcGetMachineDeployment
    \/ ConcRespond

SpecConcurrent == InitConcurrent /\ [][NextConcurrent]_vars

----------------------------------------------------------------------------
(* Properties of getCAPIMachineResources, checked under SpecCAPI *)

Range(s) == {s[k] : k \in 1..Len(s)}

Gets == {k \in 1..Len(calls) : calls[k].op = "get"}

FailedGets == {k \in Gets : calls[k].outcome /= "ok"}

HasOwnerOfKind(obj, kind) == \E k \in 1..Len(obj.owners) : obj.owners[k].kind = kind

\* the listed machines that pass the machine name filter
Unfiltered == {k \in 1..Len(machines) : ~Filtered(machines[k], machineName)}

\* C1: in one run, no machine set name and no machine deployment name is
\* fetched through getResource more than once
C1_FetchedAtMostOnce ==
    \A a, b \in Gets :
        (calls[a].kind = calls[b].kind /\ calls[a].name = calls[b].name) => a = b

\* two machines of the walk share a machine set, which was fetched exactly once
C1_Witness ==
    /\ pc = "done" /\ err = NoError
    /\ Len(ret.machines) >= 2
    /\ SetNameOf(ret.machines[1].owners) /= ""
    /\ SetNameOf(ret.machines[1].owners) = SetNameOf(ret.machines[2].owners)
    /\ Cardinality({k \in Gets : calls[k].kind = CAPIMachineSetResourceKind
                        /\ calls[k].name = SetNameOf(ret.machines[1].owners)}) = 1

\* C2: a failed fetch of a machine set or machine deployment is the last
\* Gateway call of the walk; the function returns that error and no
\* machines, machine sets or machine deployments
C2_FetchFailureAborts ==
    \A k \in FailedGets :
        /\ k = Len(calls)
        /\ pc = "done"
        /\ err = calls[k].outcome
        /\ ret = NilRet

\* a machine deployment fetch failed with Unavailable after machines and a
\* machine set had been collected
C2_Witness ==
    /\ pc = "done"
    /\ err = "Unavailable"
    /\ calls[Len(calls)].kind = CAPIMachineDeploymentResourceKind
    /\ capiMachines /= <<>>
    /\ capiMachineSets /= <<>>

\* C6: a NotFound of the machines list call ends the function with three
\* empty collections, no error and no further Gateway call; any other
\* error of the list call is returned as the function's error
C6_ListFailure ==
    (Len(calls) >= 1 /\ calls[1].op = "list" /\ calls[1].outcome /= "ok") =>
        /\ pc = "done"
        /\ Len(calls) = 1
        /\ ret = NilRet
        /\ err = IF calls[1].outcome = "NotFound" THEN NoError ELSE calls[1].outcome

C6_Witness ==
    /\ pc = "done" /\ err = NoError
    /\ Len(calls) = 1 /\ calls[1].op = "list" /\ calls[1].outcome = "NotFound"

\* C7: the loop iteration of an unfiltered machine with no owner of kind
\* MachineSet appends the machine to the collected machines, leaves the
\* machine sets and machine deployments alone, issues no Gateway call, sets
\* no error and goes on to the next machine; when the walk succeeds the
\* machine is among the returned machines
C7_OrphanStep ==
    (/\ pc = "loop" /\ i <= Len(machines)
     /\ ~Filtered(machines[i], machineName)
     /\ ~HasOwnerOfKind(machines[i], CAPIMachineSetKind)) =>
        /\ capiMachines' = Append(capiMachines, machines[i])
        /\ capiMachineSets' = capiMachineSets
        /\ capiMachineDeployments' = capiMachineDeployments
        /\ calls' = calls
        /\ err' = err
        /\ pc' = "loop" /\ i' = i + 1

C7_OrphanReturned ==
    (pc = "done" /\ err = NoError /\ Len(calls) >= 1 /\ calls[1].outcome = "ok") =>
        \A k \in Unfiltered :
            ~HasOwnerOfKind(machines[k], CAPIMachineSetKind) =>
                machines[k] \in Range(ret.machines)

C7_OrphanMachineKept == [][C7_OrphanStep]_vars /\ []C7_OrphanReturned

\* a successful walk over an orphan machine followed by an owned one
C7_Witness ==
    /\ pc = "done" /\ err = NoError
    /\ Len(ret.machines) = 2
    /\ ~HasOwnerOfKind(ret.machines[1], CAPIMachineSetKind)
    /\ ret.machines[1].owners /= <<>>
    /\ Len(ret.machineSets) = 1

\* C8: every Gateway get of the walk is for a machine set named by a
\* MachineSet owner reference of a listed machine, or for a machine
\* deployment named by a MachineDeployment owner reference of a fetched
\* machine set; owner references of other kinds cause no fetch, and a walk
\* whose Gateway calls all succeed returns no error
C8_OnlyExpectedKinds ==
    /\ \A k \in Gets :
        \/ /\ calls[k].kind = CAPIMachineSetResourceKind
           /\ \E m \in Range(machines) :
                OwnerRef(CAPIMachineSetKind, calls[k].name) \in Range(m.owners)
        \/ /\ calls[k].kind = CAPIMachineDeploymentResourceKind
           /\ \E n \in SetNames :
                /\ clusterSets[n] /= Unseen
                /\ OwnerRef(CAPIMachineDeploymentKind, calls[k].name)
                        \in Range(clusterSets[n])
    /\ (pc = "done" /\ selectorOK /\ \A k \in 1..Len(calls) : calls[k].outcome = "ok")
            => err = NoError

\* a successful walk over a machine and a machine set that both carry an
\* owner reference of another kind, with only the machine set fetched
C8_Witness ==
    /\ pc = "done" /\ err = NoError
    /\ \E m \in Range(ret.machines) : HasOwnerOfKind(m, OtherOwnerKind)
    /\ \E ms \in Range(ret.machineSets) :
            HasOwnerOfKind(ms, OtherOwnerKind)
                /\ ~HasOwnerOfKind(ms, CAPIMachineDeploymentKind)
    /\ Cardinality(Gets) = 1

\* C15: the walk stops at the first matching ancestor per relationship: a
\* machine set that is fetched is the one named by the first MachineSet
\* owner reference of a machine of the walk, and a machine deployment that
\* is fetched is the one named by the first MachineDeployment owner
\* reference of a fetched machine set
C15_FirstMatchingAncestor ==
    \A k \in Gets :
        \/ /\ calls[k].kind = CAPIMachineSetResourceKind
           /\ \E m \in Unfiltered :
                calls[k].name = FirstOwner(machines[m].owners, {CAPIMachineSetKind}).name
        \/ /\ calls[k].kind = CAPIMachineDeploymentResourceKind
           /\ \E n \in SetNames :
                /\ clusterSets[n] /= Unseen
                /\ calls[k].name =
                        FirstOwner(clusterSets[n], {CAPIMachineDeploymentKind}).name

\* a listed machine the request asks for
Requested(m) == machineName = "" \/ m.name = machineName

RequestedMachines == {k \in 1..Len(machines) : Requested(machines[k])}

\* C16: the machines list call does not depend on the machine name filter;
\* a successful walk returns exactly the listed machines that have the
\* requested name, in the list's order, and every listed machine when the
\* filter is empty; machine sets and machine deployments are fetched only
\* for owners of those machines
C16_FilterNarrows ==
    /\ Len(calls) >= 1 =>
            /\ calls[1].op = "list"
            /\ calls[1].kind = CAPIMachineResourceKind
            /\ calls[1].name = ""
    /\ (pc = "done" /\ err = NoError) =>
            /\ ret.machines = SelectSeq(machines, Requested)
            /\ machineName = "" => ret.machines = machines
    /\ \A k \in Gets :
            \E m \in RequestedMachines :
                \/ /\ calls[k].kind = CAPIMachineSetResourceKind
                   /\ OwnerRef(CAPIMachineSetKind, calls[k].name)
                            \in Range(machines[m].owners)
                \/ /\ calls[k].kind = CAPIMachineDeploymentResourceKind
                   /\ \E n \in SetNames :
                        /\ OwnerRef(CAPIMachineSetKind, n) \in Range(machines[m].owners)
                        /\ clusterSets[n] /= Unseen
                        /\ OwnerRef(CAPIMachineDeploymentKind, calls[k].name)
                                \in Range(clusterSets[n])

\* a successful walk with the filter set over two listed machines owned by
\* different machine sets: only the named machine is returned and only its
\* machine set was fetched
C16_Witness ==
    /\ pc = "done" /\ err = NoError
    /\ machineName = MachineNames[2]
    /\ Len(machines) = 2
    /\ SetNameOf(machines[1].owners) = "s1"
    /\ SetNameOf(machines[2].owners) = "s2"
    /\ ret.machines = <<machines[2]>>
    /\ Len(ret.machineSets) = 1 /\ ret.machineSets[1].name = "s2"
    /\ Len(ret.machineDeployments) = 1

Min(S) == CHOOSE x \in S : \A y \in S : x <= y

\* the position in the machines list of the first requested machine that
\* leads to the machine set n
FirstMachineOfSet(n) ==
    Min({k \in RequestedMachines : SetNameOf(machines[k].owners) = n})

\* the position in the machines list of the first requested machine whose
\* machine set has the machine deployment d as an owner
FirstMachineOfDeployment(d) ==
    Min({k \in RequestedMachines :
            /\ SetNameOf(machines[k].owners) /= ""
            /\ OwnerRef(CAPIMachineDeploymentKind, d)
                    \in Range(clusterSets[SetNameOf(machines[k].owners)])})

ListIndex(m) == Min({k \in 1..Len(machines) : machines[k] = m})

\* C17: the collections of a successful walk are in first-encountered
\* order: the machines keep the order of the list call, and a machine set
\* (or machine deployment) A precedes B in its collection exactly when the
\* first machine leading to A comes before the first machine leading to B
C17_FirstEncounteredOrder ==
    (pc = "done" /\ err = NoError) =>
        /\ \A a, b \in 1..Len(ret.machines) :
                a < b <=> ListIndex(ret.machines[a]) < ListIndex(ret.machines[b])
        /\ \A a, b \in 1..Len(ret.machineSets) :
                a < b <=> FirstMachineOfSet(ret.machineSets[a].name)
                            < FirstMachineOfSet(ret.machineSets[b].name)
        /\ \A a, b \in 1..Len(ret.machineDeployments) :
                a < b <=> FirstMachineOfDeployment(ret.machineDeployments[a].name)
                            < FirstMachineOfDeployment(ret.machineDeployments[b].name)

AnyFailedCall == \E k \in 1..Len(calls) : calls[k].outcome /= "ok"

\* once a Gateway call has returned an error, no Gateway call is issued
C20_NoCallAfterFailure == AnyFailedCall => calls' = calls

\* a Gateway call that returned an error is the last call of the traversal,
\* which has returned
C20_FailureIsLast ==
    \A k \in 1..Len(calls) :
        calls[k].outcome /= "ok" => (k = Len(calls) /\ pc = "done")

\* C20: no hop of the walk is retried and the walk stops at the first
\* failure: after a Gateway call has returned an error no further Gateway
\* call is issued, so the failed target is never requested again
C20_StopsAtFirstFailure == [][C20_NoCallAfterFailure]_vars /\ []C20_FailureIsLast

\* the fetch of the first machine's machine set failed while a second
\* machine with another machine set was still to be walked
C20_Witness ==
    /\ pc = "done" /\ err = "Forbidden"
    /\ Len(machines) = 2 /\ machineName = ""
    /\ SetNameOf(machines[1].owners) = "s1"
    /\ SetNameOf(machines[2].owners) = "s2"
    /\ Len(calls) = 2
    /\ calls[2] = Call("get", CAPIMachineSetResourceKind, "s1", "Forbidden")

----------------------------------------------------------------------------
(* Properties of InspectPod and GetNodes, checked under SpecInspect *)

MetricsKinds == {"pod.metrics.k8s.io", "node.metrics.k8s.io"}

MetricsFailed ==
    \E k \in 1..Len(calls) : calls[k].kind \in MetricsKinds /\ calls[k].outcome /= "ok"

\* C3: once the metrics fetch of InspectPod or GetNodes has failed, the
\* invocation goes on: no Gateway error becomes its error, it can only end
\* with an error of a later step (the pod logs, the formatter), and when it
\* succeeds its bundle is the required resources without a metrics entry
C3_MetricsNeverFatal ==
    MetricsFailed =>
        /\ err \in {NoError, "LogsError", "ResponseError"}
        /\ pc \in {"getPodLogs", "respondPod", "respondNodes", "done"}
        /\ (pc = "done" /\ err = NoError) =>
              IF tool = "InspectPod"
                THEN /\ bundle = <<podResource, parentResource, logs>>
                     /\ Nil \notin Range(bundle)
                ELSE bundle = nodeResource

\* InspectPod succeeded although the pod metrics fetch had failed
C3_Witness ==
    /\ tool = "InspectPod" /\ pc = "done" /\ err = NoError
    /\ MetricsFailed
    /\ Len(bundle) = 3

\* C4: InspectPod on a pod with no owner of kind ReplicaSet returns without
\* error and its bundle holds just the pod
C4_PodWithoutReplicaSet ==
    (/\ tool = "InspectPod" /\ pc = "done"
     /\ podResource /= Nil /\ podResource.owners /= Unconvertible
     /\ ~HasOwnerOfKind(podResource, "ReplicaSet")) =>
        /\ err = NoError
        /\ bundle = <<podResource>>

\* C5: when the fetched replicaset has no owner of kind Deployment,
\* StatefulSet or DaemonSet, InspectPod returns no error and its bundle has
\* no parent controller entry
C5_ReplicaSetWithoutController ==
    (/\ tool = "InspectPod" /\ pc = "done"
     /\ replicaSetResource /= Nil /\ replicaSetResource.owners /= Unconvertible
     /\ \A kind \in ParentKinds : ~HasOwnerOfKind(replicaSetResource, kind)) =>
        /\ err \notin {"NameRequired"} \cup ErrKinds
        /\ \A k \in 1..Len(bundle) : bundle[k].kind \notin {ToLower(kind) : kind \in ParentKinds}

\* the owner the order of preference Deployment, StatefulSet, DaemonSet selects
PreferredParent(owners) ==
    IF FirstOwner(owners, {"Deployment"}).kind /= ""
      THEN FirstOwner(owners, {"Deployment"})
    ELSE IF FirstOwner(owners, {"StatefulSet"}).kind /= ""
      THEN FirstOwner(owners, {"StatefulSet"})
    ELSE FirstOwner(owners, {"DaemonSet"})

ParentGets ==
    {k \in 1..Len(calls) : calls[k].kind \in {ToLower(kind) : kind \in ParentKinds}}

\* C14: when the replicaset's owner references include more than one of the
\* kinds Deployment, StatefulSet and DaemonSet, the parent InspectPod
\* fetches is the one preferred in the order Deployment, StatefulSet,
\* DaemonSet
C14_ParentByPreference ==
    (/\ tool = "InspectPod"
     /\ replicaSetResource /= Nil /\ replicaSetResource.owners /= Unconvertible
     /\ Cardinality({kind \in ParentKinds :
                        HasOwnerOfKind(replicaSetResource, kind)}) > 1) =>
        \A k \in ParentGets :
            /\ calls[k].kind = ToLower(PreferredParent(replicaSetResource.owners).kind)
            /\ calls[k].name = PreferredParent(replicaSetResource.owners).name

\* C18: an Unauthorized or Forbidden error returned by a Gateway call of an
\* invocation is fatal: the invocation ends with that error and never with
\* a successful result
C18_ForbiddenFatal ==
    (pc = "done" /\ \E k \in 1..Len(calls) : calls[k].outcome = "Forbidden") =>
        err = "Forbidden"

----------------------------------------------------------------------------
(* Properties of getClusterType, checked under SpecClusterType *)

WellTyped(field) == field /= Malformed

IsBool(field) == field \in {"true", "false"}

\* provider and driver are strings where present, and one of them is present
HasProviderInfo(mc) ==
    /\ WellTyped(mc.provider) /\ WellTyped(mc.driver)
    /\ ~(mc.provider = Absent /\ mc.driver = Absent)

HostedResult(imported) ==
    IF imported = "true" THEN Classified(ClusterTypeImported)
    ELSE Classified(ClusterTypeHosted)

\* C9 as stated: whenever a hosted block carries an imported boolean, the
\* result is imported for true and hosted for false, whatever the provider,
\* the driver and the pool size
C9_HostedPrecedence_Original ==
    pc = "done" =>
        \A b \in HostedBlocks :
            IsBool(managementCluster.imported[b]) =>
                clusterType = HostedResult(managementCluster.imported[b])

\* C9 amended: when provider and driver are strings where present and not
\* both absent, the first block of aksConfig, eksConfig, gkeConfig, aliConfig
\* that has an imported field decides, if that field is a boolean: imported
\* for true, hosted for false, whatever provider, driver and pool size
C9_HostedPrecedence ==
    (pc = "done" /\ HasProviderInfo(managementCluster)) =>
        \A k \in 1..Len(importedHosted) :
            (/\ IsBool(managementCluster.imported[importedHosted[k]])
             /\ \A h \in 1..(k - 1) :
                    managementCluster.imported[importedHosted[h]] = Absent) =>
                clusterType = HostedResult(managementCluster.imported[importedHosted[k]])

\* a hosted, not imported, cluster whose provider equals its driver and that
\* has no machine pool: the later rules would say imported or custom
C9_Witness ==
    /\ pc = "done"
    /\ managementCluster.provider = "rke2" /\ managementCluster.driver = "rke2"
    /\ poolSize = 0
    /\ managementCluster.imported["aksConfig"] = Absent
    /\ managementCluster.imported["eksConfig"] = "false"
    /\ managementCluster.imported["gkeConfig"] = "true"
    /\ clusterType = Classified(ClusterTypeHosted)

NoHostedBlock(mc) == \A b \in HostedBlocks : mc.imported[b] = Absent

C11_PoolSizeDecides ==
    (/\ pc = "done"
     /\ NoHostedBlock(managementCluster)
     /\ WellTyped(managementCluster.provider) /\ WellTyped(managementCluster.driver)
     /\ StringOf(managementCluster.provider) /= StringOf(managementCluster.driver)) =>
        clusterType = IF poolSize = 0 THEN Classified(ClusterTypeCustom)
                      ELSE Classified(ClusterTypeNodeDriver)

\* provider rke2 and driver k3s with machine pools give nodedriver
C11_Witness ==
    /\ pc = "done"
    /\ NoHostedBlock(managementCluster)
    /\ managementCluster.provider = "rke2" /\ managementCluster.driver = "k3s"
    /\ poolSize > 0
    /\ clusterType = Classified(ClusterTypeNodeDriver)

----------------------------------------------------------------------------
(* Properties of getResource and getResources, checked under SpecGateway *)

\* the kind names the Kind Registry has a mapping for, in any casing
KnownKind(kind) ==
    \E c \in Casings : kind \in c /\ c \cap DOMAIN K8sKindsToGVRs /= {}

SameUpToCase(a, b) == \E c \in Casings : a \in c /\ b \in c

\* C12: getResource and getResources, called with a kind name that has no
\* mapping in the Kind Registry, fail with an UnknownKind error
C12_UnknownKindFails ==
    (pc = "done" /\ ~KnownKind(params.kind)) => err = "UnknownKind"

\* C13: any two resolved kind strings that are known and differ only in
\* casing were resolved to the same coordinates, which are those of the
\* registry and not the zero coordinates
C13_CasingInvariant ==
    \A a, b \in 1..Len(resolved) :
        (KnownKind(resolved[a].kind)
            /\ SameUpToCase(resolved[a].kind, resolved[b].kind)) =>
                /\ resolved[a].gvr = resolved[b].gvr
                /\ resolved[a].gvr /= ZeroGVR

\* two requests for the same kind in different casings, both answered
C13_Witness ==
    /\ pc = "done" /\ err = NoError
    /\ Len(resolved) = 2
    /\ resolved[1].kind = "pod" /\ resolved[2].kind = "POD"
    /\ Len(calls) = 2
    /\ calls[1].kind = "pods" /\ calls[2].kind = "pods"

----------------------------------------------------------------------------
(* Properties of InspectCluster, checked under SpecCluster *)

RequiredKinds == {ProvisioningClusterResourceKind, ManagementClusterResourceKind}

\* C19: a failed fetch of the provisioning cluster or of the management
\* cluster is the last Gateway call of InspectCluster: the invocation has
\* returned that error and handed no resources to the formatter, whatever
\* it had collected
C19_RequiredFetchAborts ==
    \A k \in 1..Len(calls) :
        (calls[k].kind \in RequiredKinds /\ calls[k].outcome /= "ok") =>
            /\ k = Len(calls)
            /\ tool = "InspectCluster" /\ pc = "done"
            /\ err = calls[k].outcome
            /\ bundle = <<>>

\* the management cluster fetch failed with NotFound after the provisioning
\* cluster, the CAPI cluster, a machine pool config and a machine had been
\* collected
C19_Witness ==
    /\ tool = "InspectCluster" /\ pc = "done"
    /\ err = "NotFound"
    /\ calls[Len(calls)].kind = ManagementClusterResourceKind
    /\ Len(resources) >= 4
    /\ Nil \notin Range(resources)

----------------------------------------------------------------------------
(* Properties of concurrent requests, checked under SpecConcurrent *)

\* the walk of request w run to its return with nothing else running
RECURSIVE RunAlone(_, _)
RunAlone(f, wd) ==
    IF f.w.pc = "done" THEN f.w
    ELSE IF f.w.pc = "list" THEN RunAlone(ListStep(f, wd), wd)
    ELSE IF f.w.pc = "loop" THEN RunAlone(LoopStep(f), wd)
    ELSE IF f.w.pc = "getMachineSet" THEN RunAlone(SetStep(f, wd), wd)
    ELSE RunAlone(DeploymentStep(f), wd)

Alone(w) ==
    RunAlone([w |-> [NoWalk EXCEPT !.handler = w.handler,
                                   !.machineName = w.machineName],
              seen |-> NoneSeen, out |-> NilRet], world)

Returned(r) == walks[r].pc \in {"done", "responded"}

\* C21: under every interleaving of the requests, a request that has returned
\* from its walk returns the collections and the error, and has issued the
\* Gateway calls, of the same request run alone against the same cluster state
C21_IsolatedRequests ==
    \A r \in Requesters :
        Returned(r) =>
            /\ walks[r].ret = Alone(walks[r]).ret
            /\ walks[r].err = Alone(walks[r]).err
            /\ walks[r].calls = Alone(walks[r]).calls

\* both requests listed the machines before either fetched anything, and
\* each then fetched the same machine set and machine deployment
C21_Witness ==
    /\ \A r \in Requesters :
            /\ Returned(r)
            /\ walks[r].ret.machineSets /= <<>>
            /\ walks[r].ret.machineDeployments /= <<>>
    /\ walks["r1"].ret.machineSets = walks["r2"].ret.machineSets
    /\ calls[1].op = "list" /\ calls[2].op = "list"

----------------------------------------------------------------------------
(* Properties of getResources, checked under SpecGateway *)

\* the step in which the remote list call of getResources succeeds
ListSucceeds ==
    /\ tool = "getResources" /\ pc = "remote"
    /\ Len(calls') = Len(calls) + 1
    /\ calls'[Len(calls')].outcome = "ok"

\* C23: when the remote list call succeeds, getResources returns no error
\* and one entry per listed item, in the list's order: the empty sequence for
\* a list of zero items
C23_OneEntryPerItem ==
    [][ListSucceeds =>
            /\ pc' = "done" /\ err' = NoError
            /\ Len(result') = Len(list')
            /\ \A p \in 1..Len(list') : result'[p] = list'[p]]_vars

\* a list of two items was returned
C23_Witness ==
    /\ tool = "getResources" /\ pc = "done" /\ err = NoError
    /\ calls[Len(calls)].op = "list"
    /\ Len(list) = 2 /\ list[1] /= list[2]
    /\ result = list

----------------------------------------------------------------------------
(* Properties of InspectCluster, checked under SpecCluster *)

CallsOfKind(kind) == {k \in 1..Len(calls) : calls[k].kind = kind}

ResourcesOfKind(rs, kind) == {p \in 1..Len(rs) : rs[p].kind = kind}

Succeeded == tool = "InspectCluster" /\ pc = "done" /\ err = NoError

\* C24: the registration token is fetched, and is among the resources, only
\* when the cluster type is custom or imported: never for a hosted or a
\* node-driver cluster
C24_TokenOnlyForCustomOrImported ==
    ( \/ CallsOfKind(ClusterRegistrationTokenResourceKind) /= {}
      \/ ResourcesOfKind(resources, ClusterRegistrationTokenResourceKind) /= {}
      \/ ResourcesOfKind(bundle, ClusterRegistrationTokenResourceKind) /= {} )
        => clusterType.type \in {ClusterTypeCustom, ClusterTypeImported}

\* a node-driver cluster was inspected successfully
C24_Witness ==
    /\ Succeeded
    /\ clusterType.type = ClusterTypeNodeDriver
    /\ ResourcesOfKind(bundle, ManagementClusterResourceKind) /= {}
    /\ CallsOfKind(ClusterRegistrationTokenResourceKind) = {}

\* the lookups InspectCluster makes on a best-effort basis
OptionalKinds ==
    {CAPIClusterResourceKind, MachineConfigResourceKind,
     ClusterRegistrationTokenResourceKind}

\* the step in which an optional lookup of InspectCluster answers NotFound
OptionalNotFound ==
    /\ tool = "InspectCluster"
    /\ Len(calls') = Len(calls) + 1
    /\ calls'[Len(calls')].kind \in OptionalKinds
    /\ calls'[Len(calls')].outcome = "NotFound"

\* that step does not end the invocation, adds no resource of the kind, and
\* goes on to the next step: the next pool for a machine pool config
C25_NotFoundTolerated ==
    OptionalNotFound =>
        LET kind == calls'[Len(calls')].kind
        IN /\ err' = NoError /\ tool' = "InspectCluster"
           /\ ResourcesOfKind(resources', kind) = ResourcesOfKind(resources, kind)
           /\ machineConfigs' = machineConfigs
           /\ pc' = CASE kind = CAPIClusterResourceKind -> "machinePools"
                      [] kind = MachineConfigResourceKind -> "machinePools"
                      [] OTHER -> "respond"
           /\ kind = MachineConfigResourceKind => pool' = pool + 1

\* any other error of an optional lookup is the last call of the invocation,
\* which has failed
C25_OtherErrorsFatal ==
    \A k \in 1..Len(calls) :
        ( /\ calls[k].kind \in OptionalKinds
          /\ calls[k].outcome \notin {"ok", "NotFound"} )
            => /\ k = Len(calls)
               /\ tool = "InspectCluster" /\ pc = "done" /\ err /= NoError

\* C25: NotFound from the CAPI cluster fetch, a machine pool config fetch or
\* the registration token fetch leaves the invocation running without that
\* resource, the remaining steps and pools still performed; any other error
\* of these lookups fails the invocation
C25_OptionalLookups ==
    [][C25_NotFoundTolerated]_vars /\ []C25_OtherErrorsFatal

\* a successful invocation in which the CAPI cluster, the config of the first
\* machine pool and the registration token were not found, and the config of
\* the second pool was fetched after the first was missed
C25_Witness ==
    /\ Succeeded
    /\ \E k \in CallsOfKind(CAPIClusterResourceKind) : calls[k].outcome = "NotFound"
    /\ \E k \in CallsOfKind(ClusterRegistrationTokenResourceKind) :
            calls[k].outcome = "NotFound"
    /\ \E k, l \in CallsOfKind(MachineConfigResourceKind) :
            k < l /\ calls[k].outcome = "NotFound" /\ calls[l].outcome = "ok"
    /\ ResourcesOfKind(bundle, CAPIClusterResourceKind) = {}
    /\ ResourcesOfKind(bundle, ClusterRegistrationTokenResourceKind) = {}
    /\ Cardinality(ResourcesOfKind(bundle, MachineConfigResourceKind)) = 1

\* C26: every entry of the resources InspectCluster hands to the formatter
\* is non-nil
C26_NoNilEntry ==
    /\ (tool = "InspectCluster" /\ pc = "respond")
            => \A p \in 1..Len(resources) : resources[p] /= Nil
    /\ \A p \in 1..Len(bundle) : bundle[p] /= Nil

\* C27: InspectCluster of a provisioning cluster without spec.rkeConfig does
\* not fault: its machine pools count as none, for the configs and for the
\* pool size
C27_NoRKEConfigTolerated ==
    (tool = "InspectCluster" /\ provCluster /= NoProvCluster /\ ~provCluster.rke)
        => /\ err /= "NilPointerPanic"
           /\ machineConfigs = <<>>
           /\ poolSize = 0

\* the clusterType entries of a bundle
Markers(rs) == ResourcesOfKind(rs, "clusterType")

\* C28: a successful bundle of InspectCluster holds exactly one clusterType
\* entry, placed after the management cluster, whose value is imported,
\* custom, nodedriver or hosted
C28_OneKnownClusterType ==
    Succeeded =>
        /\ Cardinality(Markers(bundle)) = 1
        /\ \A p \in Markers(bundle) :
            /\ \E q \in ResourcesOfKind(bundle, ManagementClusterResourceKind) : q < p
            /\ bundle[p].name \in {ClusterTypeImported, ClusterTypeCustom,
                                    ClusterTypeNodeDriver, ClusterTypeHosted}

\* C29: for a cluster other than local, the machines, machine sets and
\* machine deployments are looked up in fleet-default, the namespace of the
\* provisioning cluster and of the CAPI cluster of the same invocation
C29_OneNamespace ==
    ( /\ tool = "getCAPIMachineResources" /\ caller = "InspectCluster"
      /\ pc \in {"list", "loop", "getMachineSet", "getMachineDeployment"}
      /\ request.cluster /= LocalCluster )
        => /\ ns = "fleet-default"
           /\ namespace = ns

----------------------------------------------------------------------------
(* Properties of getCAPIMachineResources, checked under SpecCAPI *)

NamesOf(rs) == {rs[p].name : p \in 1..Len(rs)}

\* the names an object's owner references of a kind give
OwnerNames(obj, kind) ==
    {obj.owners[k].name : k \in {q \in 1..Len(obj.owners) : obj.owners[q].kind = kind}}

\* C30: after a successful getCAPIMachineResources no two returned machine
\* sets and no two returned machine deployments share a name, every returned
\* machine set is named by a MachineSet owner reference of a returned
\* machine, every returned machine deployment by a MachineDeployment owner
\* reference of a returned machine set, and the machine set selected for
\* each returned machine is returned
C30_ClosedOwnershipTree ==
    (tool = "getCAPIMachineResources" /\ pc = "done" /\ err = NoError) =>
        /\ Cardinality(NamesOf(ret.machineSets)) = Len(ret.machineSets)
        /\ Cardinality(NamesOf(ret.machineDeployments)) = Len(ret.machineDeployments)
        /\ \A p \in 1..Len(ret.machineSets) :
              \E q \in 1..Len(ret.machines) :
                  ret.machineSets[p].name
                      \in OwnerNames(ret.machines[q], CAPIMachineSetKind)
        /\ \A p \in 1..Len(ret.machineDeployments) :
              \E q \in 1..Len(ret.machineSets) :
                  ret.machineDeployments[p].name
                      \in OwnerNames(ret.machineSets[q], CAPIMachineDeploymentKind)
        /\ \A q \in 1..Len(ret.machines) :
              SetNameOf(ret.machines[q].owners) /= ""
                  => SetNameOf(ret.machines[q].owners) \in NamesOf(ret.machineSets)

\* two machines of two machine sets that share one machine deployment
C30_Witness ==
    /\ tool = "getCAPIMachineResources" /\ pc = "done" /\ err = NoError
    /\ Len(ret.machines) = 2
    /\ Len(ret.machineSets) = 2
    /\ Len(ret.machineDeployments) = 1
    /\ \A p \in 1..2 : HasOwnerOfKind(ret.machineSets[p], CAPIMachineDeploymentKind)
====
